---- MODULE Spec2Model ----
(***************************************************************************)
(* Model of src/main.py: the POST /extract-aadhaar-data/ handler           *)
(* (extract_aadhaar) and its three helpers validate_pdf,                   *)
(* convert_pdf_to_image and extract_aadhaar_data.                          *)
(*                                                                         *)
(* Python strings are sequences of one-character strings, so that          *)
(* str.lower, str.endswith, str.strip, str.replace and json.loads are      *)
(* computed and not assumed.  The external collaborators (PyMuPDF, PIL,    *)
(* the hosted model, the file system, the clock) are nondeterministic      *)
(* choices over the outcomes they can produce.                             *)
(*                                                                         *)
(* The handler is an async def whose only await is aadhaar.read(): under   *)
(* uvicorn.run(app) (line 150) its body runs on one event loop, so         *)
(* requests overlap while they wait for their upload and run one at a time *)
(* from validation to the response.                                        *)
(*                                                                         *)
(* Environment failures kept: fitz.open rejecting the content, f.write     *)
(* raising after the file was created, a page that does not render, the    *)
(* model call raising, a reply that is no JSON, os.remove raising.         *)
(* aadhaar.read() and open() are taken to succeed; their failure would     *)
(* take the same except clause as the failure of f.write.                  *)
(***************************************************************************)
EXTENDS Integers, Sequences, FiniteSets, TLC

\* ------------------------------------------------------------------ bounds
\* number of requests the client side submits
NumReqs == 2
\* number of distinct values datetime.now().timestamp() can return
MaxTs == 2
\* number of tokens of a model reply explored by the fence specification
MaxLen == 3

\* ------------------------------------------------------ Python str helpers
BT == "backtick"
DQ == "\""
NL == "\n"
SP == " "

\* the characters str.strip() removes, among those of the model's alphabet
PyWhitespace == {SP, NL}

\* str.lower on one character (the letters the model's filenames use)
LowerChar(c) ==
  CASE c = "P" -> "p"
    [] c = "D" -> "d"
    [] c = "F" -> "f"
    [] c = "A" -> "a"
    [] OTHER -> c

\* str.lower
Lower(s) == [i \in 1..Len(s) |-> LowerChar(s[i])]

\* str.endswith
EndsWith(s, suffix) ==
  /\ Len(suffix) <= Len(s)
  /\ SubSeq(s, Len(s) - Len(suffix) + 1, Len(s)) = suffix

RECURSIVE LStrip(_)
LStrip(s) ==
  IF s # <<>> /\ Head(s) \in PyWhitespace THEN LStrip(Tail(s)) ELSE s

RECURSIVE RStrip(_)
RStrip(s) ==
  IF s # <<>> /\ s[Len(s)] \in PyWhitespace
  THEN RStrip(SubSeq(s, 1, Len(s) - 1))
  ELSE s

\* str.strip()
Strip(s) == RStrip(LStrip(s))

\* s[i:].replace(pat, ''): left to right, non-overlapping occurrences
RECURSIVE RemoveFrom(_, _, _)
RemoveFrom(s, pat, i) ==
  IF i > Len(s) THEN <<>>
  ELSE IF i + Len(pat) - 1 <= Len(s) /\ SubSeq(s, i, i + Len(pat) - 1) = pat
       THEN RemoveFrom(s, pat, i + Len(pat))
       ELSE <<s[i]>> \o RemoveFrom(s, pat, i + 1)

\* str.replace(pat, '')
Remove(s, pat) == RemoveFrom(s, pat, 1)

FenceJson == <<BT, BT, BT, "j", "s", "o", "n">>
Fence == <<BT, BT, BT>>
\* a JSON string whose content is the opening fence
DQ_Fenced == <<DQ>> \o FenceJson \o <<DQ>>

\* ------------------------------------------------------------- json.loads
\* Python values: None, int, str, dict
None == [t |-> "None"]
PyInt(n) == [t |-> "int", v |-> n]
PyStr(s) == [t |-> "str", v |-> s]
PyDict(f) == [t |-> "dict", v |-> f]
EmptyDict == PyDict([k \in {} |-> None])

\* bool(x), as `if not x` computes it
Truthy(x) ==
  CASE x.t = "None" -> FALSE
    [] x.t = "int" -> x.v # 0
    [] x.t = "str" -> x.v # <<>>
    [] x.t = "dict" -> DOMAIN x.v # {}
    [] OTHER -> TRUE

JsonWhitespace == {SP, NL}
Digits == {"0", "1"}
DigitVal(c) == IF c = "1" THEN 1 ELSE 0

ParseFail == [ok |-> FALSE]
Parsed(val, next) == [ok |-> TRUE, val |-> val, next |-> next]

RECURSIVE SkipWs(_, _)
SkipWs(s, i) ==
  IF i <= Len(s) /\ s[i] \in JsonWhitespace THEN SkipWs(s, i + 1) ELSE i

\* index of the closing quote of the string opened before i, 0 if there is
\* none or a control character comes first (strict mode rejects it)
RECURSIVE StringEnd(_, _)
StringEnd(s, i) ==
  IF i > Len(s) THEN 0
  ELSE IF s[i] = DQ THEN i
  ELSE IF s[i] = NL THEN 0
  ELSE StringEnd(s, i + 1)

ParseString(s, i) ==
  LET j == StringEnd(s, i + 1)
  IN IF j = 0 THEN ParseFail ELSE Parsed(PyStr(SubSeq(s, i + 1, j - 1)), j + 1)

RECURSIVE DigitsEnd(_, _)
DigitsEnd(s, i) ==
  IF i <= Len(s) /\ s[i] \in Digits THEN DigitsEnd(s, i + 1) ELSE i

RECURSIVE Decimal(_)
Decimal(ds) ==
  IF ds = <<>> THEN 0
  ELSE 10 * Decimal(SubSeq(ds, 1, Len(ds) - 1)) + DigitVal(ds[Len(ds)])

\* a JSON integer: 0, or a nonzero digit followed by digits
ParseNumber(s, i) ==
  IF s[i] = "0" THEN Parsed(PyInt(0), i + 1)
  ELSE LET j == DigitsEnd(s, i) IN Parsed(PyInt(Decimal(SubSeq(s, i, j - 1))), j)

ParseNull(s, i) ==
  IF i + 3 <= Len(s) /\ SubSeq(s, i, i + 3) = <<"n", "u", "l", "l">>
  THEN Parsed(None, i + 4)
  ELSE ParseFail

RECURSIVE ParseValue(_, _)
RECURSIVE ParseMembers(_, _, _)

\* the members of an object from the key at i on; acc holds the pairs read so
\* far (a later duplicate key replaces the earlier one, as in a Python dict)
ParseMembers(s, i, acc) ==
  IF i > Len(s) \/ s[i] # DQ THEN ParseFail
  ELSE LET k == ParseString(s, i)
       IN IF ~k.ok THEN ParseFail
          ELSE LET c == SkipWs(s, k.next)
               IN IF c > Len(s) \/ s[c] # ":" THEN ParseFail
                  ELSE LET v == ParseValue(s, SkipWs(s, c + 1))
                       IN IF ~v.ok THEN ParseFail
                          ELSE LET acc2 == [x \in DOMAIN acc \cup {k.val.v} |->
                                              IF x = k.val.v THEN v.val ELSE acc[x]]
                                   e == SkipWs(s, v.next)
                               IN IF e > Len(s) THEN ParseFail
                                  ELSE IF s[e] = "}" THEN Parsed(PyDict(acc2), e + 1)
                                  ELSE IF s[e] = ","
                                       THEN ParseMembers(s, SkipWs(s, e + 1), acc2)
                                  ELSE ParseFail

ParseObject(s, i) ==
  LET j == SkipWs(s, i + 1)
  IN IF j <= Len(s) /\ s[j] = "}" THEN Parsed(EmptyDict, j + 1)
     ELSE ParseMembers(s, j, [k \in {} |-> None])

ParseValue(s, i) ==
  IF i > Len(s) THEN ParseFail
  ELSE IF s[i] = "{" THEN ParseObject(s, i)
  ELSE IF s[i] = DQ THEN ParseString(s, i)
  ELSE IF s[i] \in Digits THEN ParseNumber(s, i)
  ELSE IF s[i] = "n" THEN ParseNull(s, i)
  ELSE ParseFail

\* json.loads on a text of the model's alphabet: the value, or JSONDecodeError
\* (also when data follows the value)
JSONDecodeError == [t |-> "JSONDecodeError"]
json_loads(s) ==
  LET r == ParseValue(s, SkipWs(s, 1))
  IN IF r.ok /\ SkipWs(s, r.next) > Len(s) THEN r.val ELSE JSONDecodeError


\* ------------------------------------------------------- values and inputs
Reqs == 1..NumReqs
NoReq == 0

\* datetime.now().timestamp(): the wall clock, which is not monotonic
Timestamps == 1..MaxTs

\* uploaded filenames
CardPdf == <<"a", ".", "p", "d", "f">>
CardPDF == <<"a", ".", "P", "D", "F">>
CardTxt == <<"a", ".", "t", "x", "t">>

\* uploaded bytes: not a PDF (corrupt, empty, another format), or a PDF
\* document with a number of pages
NotPdf == [pdf |-> FALSE]
Pdf(n) == [pdf |-> TRUE, pages |-> n]

\* the uploads the clients send: a one-page PDF, a PDF with no pages under an
\* upper-case extension, a PDF under another extension, and bytes that are no
\* PDF under the right extension
Uploads ==
  {[filename |-> CardPdf, content |-> Pdf(1)],
   [filename |-> CardPDF, content |-> Pdf(0)],
   [filename |-> CardTxt, content |-> Pdf(1)],
   [filename |-> CardPdf, content |-> NotPdf]}

\* a path with no file in the working directory
Absent == [absent |-> TRUE]

\* the texts the hosted model replies with in the request specification
ReplyFenced ==
  FenceJson \o <<NL, "{", DQ, "a", DQ, ":", "1", "}", NL>> \o Fence
ReplyEmptyField == <<"{", DQ, "a", DQ, ":", DQ, DQ, "}">>
ReplyNoFields == <<"{", "}">>
ReplyNull == <<"n", "u", "l", "l">>
ReplyRefusal == <<"n", "o">>
Replies == {ReplyFenced, ReplyEmptyField, ReplyNoFields, ReplyNull, ReplyRefusal}

\* the outcome of a call: a returned value or a raised exception
Ret(v) == [k |-> "ret", v |-> v]
Raise(e) == [k |-> "raise", e |-> e]
Exc(cls, msg) == [cls |-> cls, msg |-> msg]
HTTPException(status_code, detail) ==
  [cls |-> "HTTPException", status_code |-> status_code, detail |-> detail,
   msg |-> detail]

\* fitz.open(stream=content, filetype="pdf"): PyMuPDF signals content it cannot
\* parse with an exception; which class is the library's choice
fitz_open_stream(content) ==
  IF content.pdf THEN {Ret(content)}
  ELSE {Raise(Exc("FitzError", <<"cannot open document">>)),
        Raise(Exc("FileDataError", <<"Failed to open stream">>))}

\* fitz.open(pdf_path) on what the path holds
fitz_open_path(file) ==
  IF file = Absent THEN Raise(Exc("FileNotFoundError", <<"no such file">>))
  ELSE IF ~file.pdf THEN Raise(Exc("FileDataError", <<"Failed to open file">>))
  ELSE Ret(file)

\* the PNG of a page of a document
Image(doc, page) == [doc |-> doc, page |-> page]

\* ------------------------------------------------------------ validate_pdf
S_pdf == <<".", "p", "d", "f">>

validate_pdf(filename, opened) ==
  IF ~EndsWith(Lower(filename), S_pdf) THEN Ret(FALSE)
  ELSE IF opened.k = "ret" THEN Ret(TRUE)
  ELSE IF opened.e.cls = "FitzError" THEN Ret(FALSE)
  ELSE opened

\* ---------------------------------------------------- convert_pdf_to_image
\* the try block; rendered: whether load_page/get_pixmap/tobytes succeed
convert_try(file, rendered) ==
  LET pdf_document == fitz_open_path(file)
  IN IF pdf_document.k = "raise" THEN pdf_document
     ELSE IF pdf_document.v.pages < 1
          THEN Raise(HTTPException(400, <<"PDF has no pages.">>))
     ELSE IF ~rendered THEN Raise(Exc("RuntimeError", <<"cannot render page">>))
     ELSE Ret(Image(pdf_document.v, 0))

\* faulty variant: the except clause is missing
CatchNone(out, prefix) == [out |-> out, log |-> <<>>]

\* except Exception: print and return None
CatchAll(out, prefix) ==
  IF out.k = "raise"
  THEN [out |-> Ret(None), log |-> << <<prefix>> \o out.e.msg >>]
  ELSE [out |-> out, log |-> <<>>]

\* faulty variant: the HTTPException of line 42 escapes the except clause
convert_pdf_to_image_reraise(file, rendered) ==
  LET out == convert_try(file, rendered)
  IN IF out.k = "raise" /\ out.e.cls = "HTTPException"
     THEN [out |-> out, log |-> <<>>]
     ELSE CatchAll(out, "Error converting PDF to image: ")

convert_pdf_to_image(file, rendered) ==
  CatchAll(convert_try(file, rendered), "Error converting PDF to image: ")

\* ---------------------------------------------------- extract_aadhaar_data
\* faulty variant: only the bare fence is removed
CleanReply_BareFenceOnly(text) == Strip(Remove(Strip(text), Fence))

\* json_str of lines 85-86
CleanReply(text) == Strip(Remove(Remove(Strip(text), FenceJson), Fence))

\* lines 88-92: the parsed value, or None after a JSONDecodeError
DecodeReply(json_str) ==
  LET v == json_loads(json_str)
  IN IF v = JSONDecodeError
     THEN [out |-> Ret(None), log |-> << <<"Failed to decode JSON response from AI.">> >>]
     ELSE [out |-> Ret(v), log |-> <<>>]

\* PIL.Image.open, line 60
PIL_Image_open(image_source) ==
  IF image_source = None
  THEN Raise(Exc("AttributeError", <<"'NoneType' object has no attribute 'read'">>))
  ELSE Ret(image_source)

\* reply: the outcome of model.generate_content(...) and response.text
extract_aadhaar_data(image_source, reply) ==
  LET img == PIL_Image_open(image_source)
  IN IF img.k = "raise" THEN CatchAll(img, "Error extracting Aadhaar data: ")
     ELSE IF reply.k = "raise" THEN CatchAll(reply, "Error extracting Aadhaar data: ")
     ELSE DecodeReply(CleanReply(reply.v))


\* ------------------------------------------------------------------- state
VARIABLES
  pc,             \* position of each request's coroutine in extract_aadhaar
  loop,           \* the request whose coroutine the event loop is running
  upload,         \* aadhaar: the filename and content each request uploads
  now,            \* what datetime.now().timestamp() returned to each request
  temp_filename,  \* the handler's local of that name
  img_data,       \* the handler's local of that name
  aadhaar_data,   \* the handler's local of that name
  disk,           \* the working directory: scratch path -> content or Absent
  writer,         \* scratch path -> the request that wrote it last
  response,       \* the JSONResponse returned to each request's client
  log,            \* what each request printed
  stages,         \* the stages each request ran, in order
  failed,         \* the stages of each request that failed, in order
  raster_src,     \* the file each request's rasterizer opened, and its writer
  left,           \* whether a request's scratch path held a file when it returned
  clobber,        \* <<r, q>>: r opened for writing a path holding q's file
  before,         \* the requests with the same upload answered 200 before
                  \* each request was submitted
  probe           \* the fence specification's pair of extractor calls

vars == <<pc, loop, upload, now, temp_filename, img_data, aadhaar_data, disk,
          writer, response, log, stages, failed, raster_src, left, clobber,
          before, probe>>

NoUpload == [filename |-> <<>>, content |-> NotPdf]
NoTs == 0
NoName == <<>>
NoResponse == [status_code |-> 0]
NoSrc == [by |-> NoReq]
NoProbe == [plain |-> <<>>]

\* faulty variant: a fixed scratch name
TempFilename_Fixed(ts) == <<"temp_aadhaar_", 1, ".pdf">>

\* line 115: f"temp_aadhaar_{datetime.now().timestamp()}.pdf"
TempFilename(ts) == <<"temp_aadhaar_", ts, ".pdf">>
Paths == {TempFilename(ts) : ts \in Timestamps}

Init ==
  /\ pc = [r \in Reqs |-> "idle"]
  /\ loop = NoReq
  /\ upload = [r \in Reqs |-> NoUpload]
  /\ now = [r \in Reqs |-> NoTs]
  /\ temp_filename = [r \in Reqs |-> NoName]
  /\ img_data = [r \in Reqs |-> None]
  /\ aadhaar_data = [r \in Reqs |-> None]
  /\ disk = [p \in Paths |-> Absent]
  /\ writer = [p \in Paths |-> NoReq]
  /\ response = [r \in Reqs |-> NoResponse]
  /\ log = [r \in Reqs |-> <<>>]
  /\ stages = [r \in Reqs |-> <<>>]
  /\ failed = [r \in Reqs |-> <<>>]
  /\ raster_src = [r \in Reqs |-> NoSrc]
  /\ left = [r \in Reqs |-> FALSE]
  /\ clobber = {}
  /\ before = [r \in Reqs |-> {}]
  /\ probe = NoProbe

\* ---------------------------------------------------------- extract_aadhaar
\* lines 143-146: the handler's two except clauses
ErrorResponse(e) ==
  IF e.cls = "HTTPException"
  THEN [status_code |-> e.status_code, content |-> [error |-> e.detail]]
  ELSE [status_code |-> 500, content |-> [error |-> e.msg]]

\* lines 109-112, 122-125, 130-133
InvalidPdf(filename) ==
  HTTPException(400, <<"File ">> \o filename \o <<" must be a valid PDF">>)
FailedToProcess(filename) ==
  HTTPException(400, <<"Failed to process ">> \o filename)
FailedToExtract(filename) ==
  HTTPException(400, <<"Failed to extract data from ">> \o filename)

\* the handler returns resp: the coroutine ends and the event loop is free;
\* path is its temp_filename (NoName when unassigned) and d the working
\* directory at that moment
Return(r, resp, path, d) ==
  /\ response' = [response EXCEPT ![r] = resp]
  /\ pc' = [pc EXCEPT ![r] = "done"]
  /\ loop' = NoReq
  /\ left' = [left EXCEPT ![r] = path # NoName /\ d[path] # Absent]

\* a step of the handler that neither returns nor raises
Goto(r, next) ==
  /\ pc' = [pc EXCEPT ![r] = next]
  /\ UNCHANGED <<response, left>>

\* history: the stage ran, and whether it failed
Ran(r, stage, ok) ==
  /\ stages' = [stages EXCEPT ![r] = Append(@, stage)]
  /\ failed' = [failed EXCEPT ![r] = IF ok THEN @ ELSE Append(@, stage)]

\* the client sends POST /extract-aadhaar-data/ with one file
Submit(r) ==
  /\ pc[r] = "idle"
  /\ \A q \in 1..(r - 1) : pc[q] # "idle"
  /\ \E u \in Uploads :
       /\ upload' = [upload EXCEPT ![r] = u]
       /\ before' = [before EXCEPT ![r] =
                       {q \in Reqs : /\ pc[q] = "done"
                                     /\ upload[q] = u
                                     /\ response[q].status_code = 200}]
  /\ pc' = [pc EXCEPT ![r] = "read"]
  /\ UNCHANGED <<loop, now, temp_filename, img_data, aadhaar_data, disk, writer,
                 response, log, stages, failed, raster_src, left, clobber, probe>>

\* line 105: await aadhaar.read(), the handler's only suspension point; from
\* here the coroutine runs on the event loop without yielding until it returns
Read(r) ==
  /\ pc[r] = "read"
  /\ loop = NoReq
  /\ Ran(r, "read", TRUE)
  /\ Goto(r, "validate")
  /\ loop' = r
  /\ UNCHANGED <<upload, now, temp_filename, img_data, aadhaar_data, disk, writer,
                 log, raster_src, clobber, before, probe>>

\* lines 108-112
AfterValidate(r, valid) ==
  IF valid.k = "raise" THEN Return(r, ErrorResponse(valid.e), NoName, disk)
  ELSE IF ~valid.v
       THEN Return(r, ErrorResponse(InvalidPdf(upload[r].filename)), NoName, disk)
  ELSE /\ Goto(r, "persist")
       /\ UNCHANGED loop

Validate(r) ==
  /\ pc[r] = "validate"
  /\ \E opened \in fitz_open_stream(upload[r].content) :
       LET valid == validate_pdf(upload[r].filename, opened)
       IN /\ Ran(r, "validate", valid = Ret(TRUE))
          /\ AfterValidate(r, valid)
  /\ UNCHANGED <<upload, now, temp_filename, img_data, aadhaar_data, disk, writer,
                 log, raster_src, clobber, before, probe>>

\* lines 115-117: open(temp_filename, 'wb') creates or truncates the file, then
\* f.write fills it or raises OSError (a full disk) and leaves it truncated
Persist(r) ==
  /\ pc[r] = "persist"
  /\ \E ts \in Timestamps, w \in {"written", "write fails"} :
       LET path == TempFilename(ts)
           d == IF w = "written" THEN [disk EXCEPT ![path] = upload[r].content]
                ELSE [disk EXCEPT ![path] = NotPdf]
       IN /\ Ran(r, "persist", w = "written")
          /\ now' = [now EXCEPT ![r] = ts]
          /\ temp_filename' = [temp_filename EXCEPT ![r] = path]
          /\ disk' = d
          /\ writer' = [writer EXCEPT ![path] = r]
          /\ clobber' = IF disk[path] # Absent
                        THEN clobber \cup {<<r, writer[path]>>}
                        ELSE clobber
          /\ IF w = "written"
             THEN /\ Goto(r, "rasterize")
                  /\ UNCHANGED loop
             ELSE Return(r, ErrorResponse(Exc("OSError", <<w>>)), path, d)
  /\ UNCHANGED <<upload, img_data, aadhaar_data, log, raster_src, before, probe>>

\* faulty variant: the check of line 121 is missing
AfterRasterize_NoCheck(r, out) ==
  /\ img_data' = [img_data EXCEPT ![r] = out.v]
  /\ Goto(r, "extract")
  /\ UNCHANGED loop

\* lines 120-125: img_data is assigned, then checked
AfterRasterize(r, out) ==
  IF out.k = "raise" THEN Return(r, ErrorResponse(out.e), temp_filename[r], disk)
  ELSE /\ img_data' = [img_data EXCEPT ![r] = out.v]
       /\ IF out.v = None
          THEN Return(r, ErrorResponse(FailedToProcess(upload[r].filename)),
                      temp_filename[r], disk)
          ELSE /\ Goto(r, "extract")
               /\ UNCHANGED loop

Rasterize(r) ==
  /\ pc[r] = "rasterize"
  /\ \E rendered \in BOOLEAN :
       LET file == disk[temp_filename[r]]
           c == convert_pdf_to_image(file, rendered)
       IN /\ Ran(r, "rasterize", c.out.k = "ret" /\ c.out.v # None)
          /\ raster_src' = [raster_src EXCEPT ![r] =
                              [by |-> writer[temp_filename[r]], file |-> file]]
          /\ log' = [log EXCEPT ![r] = @ \o c.log]
          /\ AfterRasterize(r, c.out)
          /\ c.out.k = "raise" => UNCHANGED img_data
  /\ UNCHANGED <<upload, now, temp_filename, aadhaar_data, disk, writer, clobber,
                 before, probe>>

\* lines 128-133: aadhaar_data is assigned, then checked
AfterExtract(r, out) ==
  IF out.k = "raise" THEN Return(r, ErrorResponse(out.e), temp_filename[r], disk)
  ELSE /\ aadhaar_data' = [aadhaar_data EXCEPT ![r] = out.v]
       /\ IF ~Truthy(out.v)
          THEN Return(r, ErrorResponse(FailedToExtract(upload[r].filename)),
                      temp_filename[r], disk)
          ELSE /\ Goto(r, "cleanup")
               /\ UNCHANGED loop

ModelOutcomes ==
  {Ret(t) : t \in Replies} \cup {Raise(Exc("GoogleAPIError", <<"API key not valid">>))}

\* the extract stage fails when the extractor gives nothing the handler's
\* `if not aadhaar_data` accepts
Extract(r) ==
  /\ pc[r] = "extract"
  /\ \E reply \in ModelOutcomes :
       LET x == extract_aadhaar_data(img_data[r], reply)
       IN /\ Ran(r, "extract", x.out.k = "ret" /\ Truthy(x.out.v))
          /\ log' = [log EXCEPT ![r] = @ \o x.log]
          /\ AfterExtract(r, x.out)
          /\ x.out.k = "raise" => UNCHANGED aadhaar_data
  /\ UNCHANGED <<upload, now, temp_filename, img_data, disk, writer, raster_src,
                 clobber, before, probe>>

\* lines 136-139: os.remove(temp_filename) inside try/except Exception; removed:
\* whether the file system lets the file go
RemoveFailed == <<"Error deleting temporary file: ", "OSError">>

\* faulty variant: os.remove is not called
Remove_temp_Skipped(d, path, removed) ==
  [out |-> Ret(None), disk |-> d, log |-> <<>>]

\* faulty variant: the failure of os.remove is not caught
Remove_temp_Raises(d, path, removed) ==
  IF removed /\ d[path] # Absent
  THEN [out |-> Ret(None), disk |-> [d EXCEPT ![path] = Absent], log |-> <<>>]
  ELSE [out |-> Raise(Exc("OSError", <<"cannot remove">>)), disk |-> d, log |-> <<>>]

Remove_temp(d, path, removed) ==
  IF removed /\ d[path] # Absent
  THEN [out |-> Ret(None), disk |-> [d EXCEPT ![path] = Absent], log |-> <<>>]
  ELSE [out |-> Ret(None), disk |-> d, log |-> <<RemoveFailed>>]

\* lines 135-141; a failed removal is not a failure of the request
Cleanup(r) ==
  /\ pc[r] = "cleanup"
  /\ Ran(r, "remove", TRUE)
  /\ \E removed \in BOOLEAN :
       LET c == Remove_temp(disk, temp_filename[r], removed)
       IN /\ disk' = c.disk
          /\ log' = [log EXCEPT ![r] = @ \o c.log]
          /\ IF c.out.k = "raise"
             THEN Return(r, ErrorResponse(c.out.e), temp_filename[r], c.disk)
             ELSE Return(r, [status_code |-> 200, content |-> aadhaar_data[r]],
                         temp_filename[r], c.disk)
  /\ UNCHANGED <<upload, now, temp_filename, img_data, aadhaar_data, writer,
                 raster_src, clobber, before, probe>>

Next ==
  \E r \in Reqs :
    \/ Submit(r)
    \/ Read(r)
    \/ Validate(r)
    \/ Persist(r)
    \/ Rasterize(r)
    \/ Extract(r)
    \/ Cleanup(r)

Spec == Init /\ [][Next]_vars

\* ------------------------------------------------ the fence specification
\* Model replies are built from at most MaxLen of these pieces: JSON
\* punctuation, a member prefix, a string holding a fence, backticks, the
\* word json, a newline
Pieces ==
  {<<"{", DQ, "a", DQ, ":">>, <<"}">>, <<"{">>, <<"1">>, <<DQ>>,
   DQ_Fenced, Fence, <<BT>>, <<"j", "s", "o", "n">>, <<NL>>}

RECURSIVE Concat(_)
Concat(ps) == IF ps = <<>> THEN <<>> ELSE Head(ps) \o Concat(Tail(ps))

Texts == UNION {{Concat(ps) : ps \in [1..n -> Pieces]} : n \in 0..MaxLen}

\* text wrapped in markdown code fences: an opening line, the text, a closing
\* line, with whitespace around
Fenced(text, opening, pad) ==
  pad \o opening \o <<NL>> \o text \o <<NL>> \o Fence \o pad

Openings == {FenceJson, Fence}
Pads == {<<>>, <<SP, NL>>}

\* the extractor called on a reply and on the same reply inside fences
Probe ==
  /\ probe = NoProbe
  /\ \E text \in Texts, opening \in Openings, pad \in Pads :
       LET fenced == Fenced(text, opening, pad)
           image == Image(Pdf(1), 0)
       IN probe' =
            [plain |-> text,
             fenced |-> fenced,
             plainResult |-> extract_aadhaar_data(image, Ret(text)).out.v,
             fencedResult |-> extract_aadhaar_data(image, Ret(fenced)).out.v]
  /\ UNCHANGED <<pc, loop, upload, now, temp_filename, img_data, aadhaar_data,
                 disk, writer, response, log, stages, failed, raster_src, left,
                 clobber, before>>

FenceSpec == Init /\ [][Probe]_vars


\* ------------------------------------------------------------------ claims
Done(r) == pc[r] = "done"
Has(seq, x) == \E i \in 1..Len(seq) : seq[i] = x
Last(seq) == seq[Len(seq)]
IsPrefix(s, t) == Len(s) <= Len(t) /\ s = SubSeq(t, 1, Len(s))
StageOrder == <<"read", "validate", "persist", "rasterize", "extract", "remove">>

\* the scratch file of r was written (the Persisted stage was reached)
Persisted(r) == Has(stages[r], "persist") /\ ~Has(failed[r], "persist")
\* an exception was caught and printed inside the extractor / the rasterizer
ExtractorRaised(r) ==
  \E i \in 1..Len(log[r]) : log[r][i][1] = "Error extracting Aadhaar data: "
RasterizerRaised(r) ==
  \E i \in 1..Len(log[r]) : log[r][i][1] = "Error converting PDF to image: "
Ok200(r) == response[r] = [status_code |-> 200, content |-> aadhaar_data[r]]
Error500(texts) == {[status_code |-> 500, content |-> [error |-> t]] : t \in texts}

\* C1 (as claimed): every request that wrote its scratch file attempts to
\* remove it before it returns, on the 200, 400 and 500 paths alike, and after
\* a 400 for a failed extraction the file is gone.
C1_CleanupOnEveryExit ==
  \A r \in Reqs :
    Done(r) /\ Persisted(r) =>
      /\ Has(stages[r], "remove")
      /\ response[r] = ErrorResponse(FailedToExtract(upload[r].filename)) => ~left[r]

\* an upload that is no PDF by its name or by its content
InvalidUpload(u) == ~EndsWith(Lower(u.filename), S_pdf) \/ ~u.content.pdf

\* C2 (as claimed): an upload whose name does not end in .pdf (any case) or
\* whose content is no PDF is answered 400 "File <filename> must be a valid
\* PDF" by validation, never 200 or 500.
C2_InvalidUploadGets400 ==
  \A r \in Reqs :
    Done(r) /\ Has(stages[r], "validate") /\ InvalidUpload(upload[r]) =>
      response[r] = ErrorResponse(InvalidPdf(upload[r].filename))

C4_ParseableReplyGets200 ==
  \A r \in Reqs :
    Done(r) /\ Has(stages[r], "extract") /\ aadhaar_data[r] # None => Ok200(r)

\* C5: rasterizing a stored document with zero pages raises the "PDF has no
\* pages." HTTPException inside convert_pdf_to_image, which catches and prints
\* it and returns no image; the request ends with 400 "Failed to process
\* <filename>" and the extractor is never called.
C5_ZeroPages400 ==
  \A r \in Reqs :
    raster_src[r] # NoSrc /\ raster_src[r].file = Pdf(0) =>
      /\ Done(r)
      /\ response[r] = ErrorResponse(FailedToProcess(upload[r].filename))
      /\ Has(log[r], <<"Error converting PDF to image: ", "PDF has no pages.">>)
      /\ img_data[r] = None
      /\ ~Has(stages[r], "extract")
      /\ aadhaar_data[r] = None

C5_Witness ==
  \E r \in Reqs : Done(r) /\ raster_src[r] # NoSrc /\ raster_src[r].file = Pdf(0)

\* the responses a failing stage produces
StageErrors(stage, filename) ==
  CASE stage = "validate" ->
         {ErrorResponse(InvalidPdf(filename))} \cup Error500({<<"Failed to open stream">>})
    [] stage = "persist" -> Error500({<<"write fails">>})
    [] stage = "rasterize" -> {ErrorResponse(FailedToProcess(filename))}
    [] stage = "extract" -> {ErrorResponse(FailedToExtract(filename))}
    [] OTHER -> {}

\* C6: a request runs its stages in the order read, validate, persist,
\* rasterize, extract, remove; at most one stage fails, it is the last one the
\* request runs, the one response reports that stage's error, and a stage
\* that did not run left no effect (no scratch file, no rasterizer call, no
\* extractor result).
C6_FirstFailureWins ==
  \A r \in Reqs :
    /\ IsPrefix(stages[r], StageOrder)
    /\ Len(failed[r]) <= 1
    /\ (response[r] # NoResponse) = Done(r)
    /\ failed[r] # <<>> =>
         /\ Done(r)
         /\ Last(stages[r]) = failed[r][1]
         /\ response[r] \in StageErrors(failed[r][1], upload[r].filename)
    /\ Done(r) /\ failed[r] = <<>> => stages[r] = StageOrder /\ Ok200(r)
    /\ ~Has(stages[r], "persist") =>
         temp_filename[r] = NoName /\ \A p \in Paths : writer[p] # r
    /\ ~Has(stages[r], "rasterize") => raster_src[r] = NoSrc /\ img_data[r] = None
    /\ ~Has(stages[r], "extract") => aadhaar_data[r] = None /\ ~ExtractorRaised(r)

\* a request whose rasterization failed has been answered
C6_Witness ==
  \E r \in Reqs : Done(r) /\ failed[r] = <<"rasterize">> /\ Len(stages[r]) = 4

\* two calls in sequence with the same document, both getting through the
\* rasterizer and the extractor
Twice(q, r) ==
  /\ q \in before[r]
  /\ Done(r)
  /\ upload[q] = upload[r]
  /\ Has(stages[q], "remove")
  /\ Has(stages[r], "remove")

\* C7 (as claimed): both calls are answered 200 with their own record, and
\* after each response the call's scratch file is gone.
C7_TwiceLeavesNothing ==
  \A q, r \in Reqs :
    Twice(q, r) => Ok200(q) /\ Ok200(r) /\ ~left[q] /\ ~left[r]

\* C7 (amended): both calls are answered 200 with their own record; after a
\* response the call's scratch file is gone unless os.remove failed for that
\* call, and then the file stays and the failure is printed.
C7_TwiceLeavesNothingUnlessRemoveFails ==
  \A q, r \in Reqs :
    Twice(q, r) =>
      /\ Ok200(q) /\ Truthy(aadhaar_data[q])
      /\ Ok200(r) /\ Truthy(aadhaar_data[r])
      /\ left[q] = Has(log[q], RemoveFailed)
      /\ left[r] = Has(log[r], RemoveFailed)

\* the two calls even drew the same timestamp, and nothing is left
C7_Witness ==
  \E q, r \in Reqs :
    /\ Twice(q, r)
    /\ now[q] = now[r]
    /\ ~left[q] /\ ~left[r]
    /\ \A p \in Paths : disk[p] = Absent

\* C8: when every stage succeeded and os.remove then fails, the failure is
\* only printed: the response is 200 with the extracted record, the same as
\* when the removal succeeds.
C8_RemoveFailureOnlyLogged ==
  \A r \in Reqs :
    Done(r) /\ Has(stages[r], "remove") =>
      /\ Ok200(r)
      /\ Truthy(aadhaar_data[r])
      /\ failed[r] = <<>>
      /\ Has(log[r], RemoveFailed) => left[r]

C8_Witness ==
  \E r \in Reqs : Done(r) /\ Has(log[r], RemoveFailed) /\ left[r] /\ Ok200(r)

\* C9 (as claimed): no request overwrites, rasterizes or removes a scratch
\* file written by another request.
C9_NoCollision ==
  /\ clobber = {}
  /\ \A r \in Reqs : raster_src[r].by \in {NoReq, r}

\* C9 (amended): under the single event loop of uvicorn.run, a request
\* overwrites a scratch file written by another request only when
\* datetime.now().timestamp() gave both the same value and the other request
\* had returned leaving its file behind; a request rasterizes and removes only
\* the file it wrote itself with its own upload.
C9_CollisionOnlyOnSameTimestamp ==
  /\ \A c \in clobber :
       /\ c[1] # c[2]
       /\ now[c[1]] = now[c[2]]
       /\ Done(c[2]) /\ left[c[2]]
  /\ \A r \in Reqs :
       /\ raster_src[r] # NoSrc =>
            raster_src[r] = [by |-> r, file |-> upload[r].content]
       /\ pc[r] \in {"rasterize", "extract", "cleanup"} =>
            /\ writer[temp_filename[r]] = r
            /\ disk[temp_filename[r]] = upload[r].content

\* a request has overwritten the file another request left behind
C9_Witness == \E c \in clobber : Done(c[1]) /\ response[c[1]].status_code = 200

HasBacktick(text) == Has(text, BT)

\* C10: for every reply text, the extractor's result for the text wrapped in
\* markdown code fences equals its result for the text alone; and for a text
\* without backticks that result is what json.loads gives for the text (None
\* when it does not parse).
C10_FencesStripped ==
  probe # NoProbe =>
    /\ probe.fencedResult = probe.plainResult
    /\ ~HasBacktick(probe.plain) =>
         probe.fencedResult =
           (IF json_loads(probe.plain) = JSONDecodeError THEN None
            ELSE json_loads(probe.plain))

\* a fenced reply that parses to a record with a field
C10_Witness ==
  /\ probe # NoProbe
  /\ probe.fencedResult.t = "dict"
  /\ Truthy(probe.fencedResult)

====
